---------------------------- MODULE Spec2Model ----------------------------
(***************************************************************************)
(* Download orchestration of src/application/main_server.py (APIServer):   *)
(* the four download handlers (share / favorite, Douyin / TikTok), the     *)
(* downloader calls they await, and the post-download webhook dispatcher.  *)
(*                                                                         *)
(* asyncio is single-threaded and cooperative: a coroutine runs alone from *)
(* one await to the next.  Every action below is one such segment, except  *)
(* the last segment of a successful handler, which is split into its three *)
(* statements (compose payload, trigger hook, return) while the variable   *)
(* cur records that the handler still holds the event loop.                *)
(***************************************************************************)
EXTENDS Integers, Sequences, FiniteSets, TLC

\* ------------------------------------------------------------------ bounds
MaxIds == 3       \* identifiers one share text resolves to
MaxItems == 2     \* items one extraction returns
MaxRawLen == 3    \* characters of POST_DOWNLOAD_WEBHOOK_URL (SpecHook)
MaxDownloads == 2 \* elements of item["downloads"] (SpecFiles)

\* The download requests in flight.  Handlers share nothing but the event loop,
\* the settings file and the environment, so one handler is followed, together
\* with the settings endpoint, its downloader calls and its webhook task.
Req == {1}

\* ------------------------------------------------------- strings as sequences
\* A string is a sequence of one-character strings.
Unset == <<"unset">>                 \* os.getenv(...) returning None
Chars == {"a", "b", ";", " "}

IsSpace(c) == c = " "

RECURSIVE LStrip(_)
LStrip(s) == IF s # <<>> /\ IsSpace(Head(s)) THEN LStrip(Tail(s)) ELSE s

RECURSIVE RStrip(_)
RStrip(s) ==
  IF s # <<>> /\ IsSpace(s[Len(s)]) THEN RStrip(SubSeq(s, 1, Len(s) - 1)) ELSE s

\* str.strip()
Strip(s) == RStrip(LStrip(s))

\* str.split(";"): the segments between the separators, empty ones included
RECURSIVE SplitSemi(_, _)
SplitSemi(s, acc) ==
  IF s = <<>> THEN <<acc>>
  ELSE IF Head(s) = ";" THEN <<acc>> \o SplitSemi(Tail(s), <<>>)
  ELSE SplitSemi(Tail(s), Append(acc, Head(s)))

RECURSIVE StripNonEmpty(_)
StripNonEmpty(segs) ==
  IF segs = <<>> THEN <<>>
  ELSE IF Strip(Head(segs)) # <<>>
       THEN <<Strip(Head(segs))>> \o StripNonEmpty(Tail(segs))
       ELSE StripNonEmpty(Tail(segs))

RECURSIVE StripAll(_)
StripAll(segs) ==
  IF segs = <<>> THEN <<>> ELSE <<Strip(Head(segs))>> \o StripAll(Tail(segs))

\* (faulty variant: the "if u.strip()" filter of the comprehension is missing)
GetPostDownloadHookUrlsUnfiltered(env) ==
  LET raw == Strip(IF env = Unset THEN <<>> ELSE env)
  IN  IF raw = <<>> THEN <<>> ELSE StripAll(SplitSemi(raw, <<>>))

\* _get_post_download_hook_urls, applied to the value of the variable
GetPostDownloadHookUrls(env) ==
  LET raw == Strip(IF env = Unset THEN <<>> ELSE env)
  IN  IF raw = <<>> THEN <<>> ELSE StripNonEmpty(SplitSemi(raw, <<>>))

RECURSIVE StringsUpTo(_)
StringsUpTo(n) ==
  IF n = 0 THEN {<<>>}
  ELSE LET shorter == StringsUpTo(n - 1)
       IN  shorter \cup {Append(s, c) : s \in shorter, c \in Chars}

\* every value of the variable the dispatcher is checked on
AllHookEnvs == {Unset} \cup StringsUpTo(MaxRawLen)

\* the values the whole-server specification starts from
HookEnvChoices ==
  { Unset, <<>>, <<" ", ";">>, <<"a">>, <<"a", ";", "b">> }


\* ------------------------------------------------------------------ settings
\* settings.json: the default account of each platform ("" = key absent or empty)
NoOwner == [sec_uid |-> "", secUid |-> "", sec_user_id |-> "", url |-> ""]

OwnerChoices ==
  { NoOwner,
    [NoOwner EXCEPT !.sec_uid = "O1"],
    [NoOwner EXCEPT !.secUid = "O2"],
    [NoOwner EXCEPT !.sec_user_id = "O3"],
    [NoOwner EXCEPT !.url = "OURL"] }

SettingsChoices ==
  { [owner_url |-> o, owner_url_tiktok |-> o] : o \in OwnerChoices }

\* ------------------------------------------------------------------ messages
MsgResolveFailed == "share link resolution failed"
MsgParamError == "parameter error: sec_user_id missing; set owner_url.url / owner_url.sec_uid"
MsgParamErrorTikTok ==
  "parameter error: sec_user_id missing; set owner_url_tiktok.url / owner_url_tiktok.sec_uid"
MsgInfoFailed == "account info failed"
MsgFavoriteFailed == "favorite data failed"
MsgExtractFailed == "extract failed"
MsgCompleted == "download task completed"
MsgDataSuccess == "get data succeeded"
MsgDataFailed == "get data failed"

\* --------------------------------------------------------------------- state
VARIABLES
  hookEnv,    \* POST_DOWNLOAD_WEBHOOK_URL of the process: Unset or a string
  settings,   \* settings.json as self.parameter.settings.read() returns it
  h,          \* h[r]: the handler coroutine of request r (its locals and position)
  fetching,   \* fetching[r]: scopes whose downloader call is in progress
  fetched,    \* fetched[r]: scopes whose downloader call has finished
  task,       \* task[r]: the webhook task created for request r
  cur,        \* the handler holding the event loop inside its last segment, or 0
  fx,         \* one batch followed from its extraction to its response entries
  sx          \* one call of _sanitize_hook_params: its argument and its result

vars == <<hookEnv, settings, h, fetching, fetched, task, cur, fx, sx>>

NoResponse == [message |-> "none"]
NoPayload == [event |-> "none"]

IdleHandler ==
  [ pc |-> "idle", kind |-> "", platform |-> "",
    req_sec_user_id |-> "", text |-> "",         \* request fields
    sec_user_id |-> "", resolved |-> "",
    mix_flag |-> FALSE, ids |-> <<>>, idx |-> 0,
    user_ids |-> <<>>,                             \* ids of the favorite handlers
    owner |-> NoOwner,                             \* the owner setting as read
    start_owner |-> NoOwner,                       \* the owner setting at arrival
    data |-> <<>>, items_out |-> <<>>,
    data_payload |-> NoPayload,
    hooks |-> 0,                                   \* calls of _trigger_post_download_hook
    calls |-> {},                                  \* the awaited calls and the
                                                   \* settings read made so far
    response |-> NoResponse ]

\* seen: the list the hook found when it created the task; urls: the list the
\* task reads when it runs
NoTask ==
  [pc |-> "none", payload |-> NoPayload, seen |-> <<>>, urls |-> <<>>, posts |-> <<>>,
   results |-> <<>>]

\* A Python value handed to _sanitize_hook_params: a dict with its items, or a
\* value of another type.
Dict(items) == [kind |-> "dict", items |-> items]
NotDict(kind) == [kind |-> kind, items |-> <<>>]

\* sx when no call is followed
NoCall ==
  [pc |-> "none", params |-> NotDict("None"), after |-> NotDict("None"),
   cleaned |-> NotDict("None"), again |-> NotDict("None"), response |-> NotDict("None")]

\* fx when no batch is followed
NoBatch ==
  [pc |-> "none", data |-> <<>>, folder |-> <<>>, folder_mode |-> FALSE, root |-> <<>>,
   disk |-> {}, items_out |-> <<>>]

\* The scope of the single-item batch and of the favorite batch.
NoScope == 0

\* The items an extraction returns for a scope: k items <<scope, 1>> .. <<scope, k>>.
Items(scope, k) == [j \in 1..k |-> <<scope, j>>]

\* ids 1..n, as links.run returns them
Ids(n) == [j \in 1..n |-> j]


\* ----------------------------------------------------------------- responses
\* extract.model_dump(): the request fields, credentials included
ModelDump(hr) ==
  IF hr.kind = "share"
  THEN [text |-> hr.text, mark |-> "", cookie |-> "CK", proxy |-> ""]
  ELSE IF hr.kind = "favorite"
  THEN [sec_user_id |-> hr.req_sec_user_id, text |-> hr.text, mark |-> "",
        cookie |-> "CK", proxy |-> ""]
  ELSE [web_rid |-> "W", cookie |-> "CK", proxy |-> ""]

\* data=None of a response
NoData == [null |-> TRUE]

\* success_response(extract, data)
SuccessResponse(hr) ==
  [hr EXCEPT !.pc = "answered",
             !.response = [message |-> MsgDataSuccess, data |-> [room |-> "W"],
                           params |-> ModelDump(hr)]]

\* (faulty variant: the failure carries an empty item list instead of None)
FailedResponseEmptyItems(hr) ==
  [hr EXCEPT !.pc = "failed",
             !.response = [message |-> MsgDataFailed,
                           data |-> [resolved_url |-> "", items |-> <<>>],
                           params |-> ModelDump(hr)]]

\* failed_response(extract)
FailedResponse(hr) ==
  [hr EXCEPT !.pc = "failed",
             !.response = [message |-> MsgDataFailed, data |-> NoData,
                           params |-> ModelDump(hr)]]

\* (faulty variant: a failure return that also calls the hook)
FailedReturnNotifies(hr, msg) ==
  [hr EXCEPT !.pc = "failed", !.hooks = @ + 1,
             !.response = [message |-> msg,
                           data |-> [resolved_url |-> hr.resolved, items |-> <<>>],
                           params |-> ModelDump(hr)]]

\* the early "return DataResponse(...)" of the download handlers
FailedReturn(hr, msg) ==
  [hr EXCEPT !.pc = "failed",
             !.response = [message |-> msg,
                           data |-> [resolved_url |-> hr.resolved, items |-> <<>>],
                           params |-> ModelDump(hr)]]

\* one entry of items_out per item of the batch, in item order
Entries(data) == [j \in 1..Len(data) |-> [id |-> data[j]]]

\* data_payload = {...}
DataPayload(hr) ==
  IF hr.kind = "share"
  THEN [resolved_url |-> hr.resolved, mount |-> "/files", root |-> "ROOT",
        items |-> hr.items_out]
  ELSE [resolved_url |-> hr.resolved, mount |-> "/files", root |-> "ROOT",
        earliest |-> "E", latest |-> "L", items |-> hr.items_out]

\* (faulty variant: the key "cookie" is not in the list of removed keys)
SanitizeHookParamsKeepsCookie(params) ==
  [k \in DOMAIN params \ {"cookie_tiktok", "headers", "authorization", "token"}
     |-> params[k]]

\* _sanitize_hook_params
SanitizeHookParams(params) ==
  [k \in DOMAIN params \ {"cookie", "cookie_tiktok", "headers", "authorization", "token"}
     |-> params[k]]

\* (faulty variant: the TikTok handlers keep the platform of the Douyin ones)
HookPayloadDouyin(hr) ==
  IF hr.kind = "share"
  THEN [event |-> "download.completed", platform |-> "douyin", source |-> hr.kind,
        resolved_url |-> hr.resolved, root |-> hr.data_payload.root,
        items |-> hr.items_out, params |-> SanitizeHookParams(ModelDump(hr))]
  ELSE [event |-> "download.completed", platform |-> "douyin", source |-> hr.kind,
        resolved_url |-> hr.resolved, root |-> hr.data_payload.root,
        earliest |-> hr.data_payload.earliest, latest |-> hr.data_payload.latest,
        items |-> hr.items_out, params |-> SanitizeHookParams(ModelDump(hr))]

\* (faulty variant: the keys are popped from the argument itself)
SanitizeHookParamsInPlace(params) ==
  IF params.kind # "dict" THEN [params |-> params, cleaned |-> Dict(<<>>)]
  ELSE [params |-> Dict(SanitizeHookParams(params.items)),
        cleaned |-> Dict(SanitizeHookParams(params.items))]

\* one call _sanitize_hook_params(params) on any value: the object passed as it
\* is after the call, and the value returned
SanitizeHookParamsCall(params) ==
  IF params.kind # "dict" THEN [params |-> params, cleaned |-> Dict(<<>>)]
  ELSE [params |-> params, cleaned |-> Dict(SanitizeHookParams(params.items))]

\* the dict handed to _trigger_post_download_hook
HookPayload(hr) ==
  IF hr.kind = "share"
  THEN [event |-> "download.completed", platform |-> hr.platform, source |-> hr.kind,
        resolved_url |-> hr.resolved, root |-> hr.data_payload.root,
        items |-> hr.items_out, params |-> SanitizeHookParams(ModelDump(hr))]
  ELSE [event |-> "download.completed", platform |-> hr.platform, source |-> hr.kind,
        resolved_url |-> hr.resolved, root |-> hr.data_payload.root,
        earliest |-> hr.data_payload.earliest, latest |-> hr.data_payload.latest,
        items |-> hr.items_out, params |-> SanitizeHookParams(ModelDump(hr))]

\* the final "return DataResponse(...)"
CompletedResponse(hr) ==
  [message |-> MsgCompleted, data |-> hr.data_payload, params |-> ModelDump(hr)]

\* ------------------------------------------------------- handler: share flow
\* "if not data: continue" / end of "for mix_id in ids": the next id, or the
\* statements after the loop
MixNext(hr) ==
  IF hr.idx > Len(hr.ids)
  THEN [hr EXCEPT !.pc = "assemble", !.data = <<>>]
  ELSE [hr EXCEPT !.pc = "mix_extract", !.data = <<>>]

\* (faulty variant: a collection without data ends the loop)
MixBreak(hr) == [hr EXCEPT !.pc = "assemble", !.data = <<>>]

\* "if not data: continue": the loop goes on with the id after this one
MixContinue(hr) == MixNext([hr EXCEPT !.idx = @ + 1])

\* (faulty variant: the "if not ids" return is missing)
AfterResolveUnchecked(hr) ==
  IF hr.mix_flag
  THEN MixNext([hr EXCEPT !.idx = 1])
  ELSE [hr EXCEPT !.pc = "detail_extract"]

\* (faulty variant: the flag of the collection resolution is kept)
DetailFallbackKeepsFlag(hr, ids) == [hr EXCEPT !.ids = ids]

\* "ids = await self.links.run(text, "detail", ...); mix_flag = False"
DetailFallback(hr, ids) == [hr EXCEPT !.mix_flag = FALSE, !.ids = ids]

\* "if not ids: return ..." and the branch on mix_flag
AfterResolve(hr) ==
  IF hr.ids = <<>> THEN FailedReturn(hr, MsgResolveFailed)
  ELSE IF hr.mix_flag
       THEN MixNext([hr EXCEPT !.idx = 1])
       ELSE [hr EXCEPT !.pc = "detail_extract"]

\* ---------------------------------------------------- handler: favorite flow
ParamErrorMessage(platform) ==
  IF platform = "tiktok" THEN MsgParamErrorTikTok ELSE MsgParamError

\* (faulty variant: the "if not sec_user_id" return is missing)
CheckSecUserUnchecked(hr) == [hr EXCEPT !.pc = "user_info"]

\* "if not sec_user_id: return ..." and the call of get_user_info_data
CheckSecUser(hr) ==
  IF hr.sec_user_id = "" THEN FailedReturn(hr, ParamErrorMessage(hr.platform))
  ELSE [hr EXCEPT !.pc = "user_info"]

\* a or b
Or(a, b) == IF a # "" THEN a ELSE b

\* owner.get("sec_uid") or [owner.get("secUid") or] owner.get("sec_user_id") or ""
OwnerSecUser(platform, owner) ==
  IF platform = "tiktok"
  THEN Or(owner.sec_uid, Or(owner.secUid, owner.sec_user_id))
  ELSE Or(owner.sec_uid, owner.sec_user_id)

\* (self.parameter.settings.read() or {}).get("owner_url[_tiktok]") or {}
OwnerOf(platform, st) ==
  IF platform = "tiktok" THEN st.owner_url_tiktok ELSE st.owner_url

\* the second "if not sec_user_id:" block: the configured default account
OwnerFallback(hr, st) ==
  LET owner == OwnerOf(hr.platform, st)
      sec == OwnerSecUser(hr.platform, owner)
      read == [hr EXCEPT !.owner = owner, !.calls = @ \cup {"settings_read"}]
  IN  IF sec = "" /\ owner.url # ""
      THEN [read EXCEPT !.pc = "owner_links"]
      ELSE CheckSecUser([read EXCEPT !.sec_user_id = sec])

\* (faulty variant: a text is resolved even when sec_user_id is given)
FavoriteStartTextFirst(hr, st) ==
  IF hr.text # "" THEN [hr EXCEPT !.pc = "fav_redirect"]
  ELSE IF hr.sec_user_id # "" THEN CheckSecUser(hr)
  ELSE OwnerFallback(hr, st)

\* the handler from its first statement to its first await
FavoriteStart(hr, st) ==
  IF hr.sec_user_id # "" THEN CheckSecUser(hr)
  ELSE IF hr.text # "" THEN [hr EXCEPT !.pc = "fav_redirect"]
  ELSE OwnerFallback(hr, st)


\* ------------------------------------------------------------- event loop
\* the positions of the last segment of a handler (no await between them)
LastSegment == {"assemble", "notify", "return"}

\* a coroutine resumes only when no handler is inside its last segment
LoopFree == cur = 0

\* the positions at which a handler is suspended in an awaited call
Awaits ==
  { "redirect", "links_mix", "links_detail", "mix_extract", "mix_fetch",
    "detail_extract", "detail_fetch", "fav_redirect", "fav_links", "owner_links",
    "user_info", "account_data", "batch_process", "fav_fetch", "live_fetch" }

\* the handler of r runs on to hr: it is suspended in the call made there, or
\* has returned, or is inside its last segment and keeps the loop
Resume(r, hr) ==
  /\ h' = [h EXCEPT ![r] =
              [hr EXCEPT !.calls = IF hr.pc \in Awaits THEN @ \cup {hr.pc} ELSE @]]
  /\ cur' = IF hr.pc \in LastSegment THEN r ELSE 0

\* (faulty variants: the downloader call is started but not awaited; the
\* handler is never resumed after the downloader call)
BatchNotAwaited(r, scope) == TRUE

BatchNeverResumes(r, scope) == FALSE

\* "await self.downloader.run_batch(...)": the handler resumes when the call
\* for that scope has finished

BatchAwaited(r, scope) == scope \in fetched[r]

\* (faulty variant: the handler awaits after the hook and yields the loop)
LoopAfterTriggerYields(r) == 0

\* the coroutine holding the loop after _trigger_post_download_hook returns:
\* the call is synchronous, the handler goes on to its return statement

LoopAfterTrigger(r) == r

\* (faulty variant: the RuntimeError of create_task is not caught)
OnCreateTaskErrorRaised(hr) ==
  [hr EXCEPT !.pc = "error", !.response = [message |-> "Internal Server Error"]]

\* "except RuntimeError: return": create_task found no running loop; the hook
\* returns and the handler goes on
OnCreateTaskError(hr) == hr

\* --------------------------------------------------------- request arrival
Start(r) ==
  /\ LoopFree
  /\ h[r].pc = "idle"
  /\ \E kind \in {"share", "favorite", "live"}, platform \in {"douyin", "tiktok"},
        sec \in {"", "U"}, text \in {"", "T"} :
       /\ kind = "share" => (sec = "" /\ text = "T")
       /\ kind = "live" => (sec = "" /\ text = "")
       /\ LET hr == [IdleHandler EXCEPT !.kind = kind, !.platform = platform,
                                        !.req_sec_user_id = sec, !.text = text,
                                        !.sec_user_id = sec,
                                        !.start_owner =
                                          IF kind = "favorite" /\ sec = ""
                                          THEN OwnerOf(platform, settings) ELSE NoOwner]
          IN  Resume(r, IF kind = "share" THEN [hr EXCEPT !.pc = "redirect"]
                        ELSE IF kind = "favorite" THEN FavoriteStart(hr, settings)
                        ELSE [hr EXCEPT !.pc = "live_fetch"])
  /\ UNCHANGED <<sx, fx, hookEnv, settings, fetching, fetched, task>>

\* ------------------------------------------------------------- share flow
\* resolved = await self.handle_redirect(...)
RedirectReturn(r) ==
  /\ LoopFree
  /\ h[r].pc = "redirect"
  /\ \E url \in {"", "R"} :
       Resume(r, [h[r] EXCEPT !.resolved = url, !.pc = "links_mix"])
  /\ UNCHANGED <<sx, fx, hookEnv, settings, fetching, fetched, task>>

\* mix_flag, ids = await self.links.run(text, "mix", ...)
LinksMixReturn(r) ==
  /\ LoopFree
  /\ h[r].pc = "links_mix"
  /\ \E flag \in BOOLEAN, n \in 0..MaxIds :
       LET hr == [h[r] EXCEPT !.mix_flag = flag, !.ids = Ids(n)]
       IN  Resume(r, IF n = 0 THEN [hr EXCEPT !.pc = "links_detail"]
                     ELSE AfterResolve(hr))
  /\ UNCHANGED <<sx, fx, hookEnv, settings, fetching, fetched, task>>

\* ids = await self.links.run(text, "detail", ...); mix_flag = False
LinksDetailReturn(r) ==
  /\ LoopFree
  /\ h[r].pc = "links_detail"
  /\ \E n \in 0..MaxIds :
       Resume(r, AfterResolve(DetailFallback(h[r], Ids(n))))
  /\ UNCHANGED <<sx, fx, hookEnv, settings, fetching, fetched, task>>

\* data = await self.deal_mix_detail(True, mix_id, ...)
MixExtractReturn(r) ==
  /\ LoopFree
  /\ h[r].pc = "mix_extract"
  /\ \E k \in 0..MaxItems :
       LET mix_id == h[r].ids[h[r].idx]
       IN  IF k = 0
           THEN /\ Resume(r, MixContinue(h[r]))
                /\ UNCHANGED fetching
           ELSE /\ Resume(r, [h[r] EXCEPT !.data = Items(mix_id, k), !.pc = "mix_fetch"])
                /\ fetching' = [fetching EXCEPT ![r] = @ \cup {mix_id}]
  /\ UNCHANGED <<sx, fx, hookEnv, settings, fetched, task>>

\* the statements after "await self.downloader.run_batch(...)" in the loop
MixBatchReturn(r) ==
  /\ LoopFree
  /\ h[r].pc = "mix_fetch"
  /\ BatchAwaited(r, h[r].ids[h[r].idx])
  /\ Resume(r, MixNext([h[r] EXCEPT !.items_out = @ \o Entries(h[r].data),
                                    !.idx = @ + 1]))
  /\ UNCHANGED <<sx, fx, hookEnv, settings, fetching, fetched, task>>

\* data = await self._handle_detail(ids, ...)
DetailExtractReturn(r) ==
  /\ LoopFree
  /\ h[r].pc = "detail_extract"
  /\ \E k \in 0..MaxItems :
       IF k = 0
       THEN /\ Resume(r, [h[r] EXCEPT !.pc = "assemble"])
            /\ UNCHANGED fetching
       ELSE /\ Resume(r, [h[r] EXCEPT !.data = Items(NoScope, k), !.pc = "detail_fetch"])
            /\ fetching' = [fetching EXCEPT ![r] = @ \cup {NoScope}]
  /\ UNCHANGED <<sx, fx, hookEnv, settings, fetched, task>>

\* the statements after "await self.downloader.run_general(data, False)"
DetailBatchReturn(r) ==
  /\ LoopFree
  /\ h[r].pc = "detail_fetch"
  /\ BatchAwaited(r, NoScope)
  /\ Resume(r, [h[r] EXCEPT !.items_out = @ \o Entries(h[r].data),
                            !.data = <<>>, !.pc = "assemble"])
  /\ UNCHANGED <<sx, fx, hookEnv, settings, fetching, fetched, task>>


\* ---------------------------------------------------------- favorite flow
\* resolved = await self.handle_redirect(extract.text, ...)
FavRedirectReturn(r) ==
  /\ LoopFree
  /\ h[r].pc = "fav_redirect"
  /\ \E url \in {"", "R"} :
       Resume(r, [h[r] EXCEPT !.resolved = url, !.pc = "fav_links"])
  /\ UNCHANGED <<sx, fx, hookEnv, settings, fetching, fetched, task>>

\* ids = await self.links.run(extract.text, "user", ...); ids[0] if ids else ""
FavLinksReturn(r) ==
  /\ LoopFree
  /\ h[r].pc = "fav_links"
  /\ \E ids \in {<<>>, <<"TU">>} :
       LET sec == IF ids # <<>> THEN ids[1] ELSE ""
           hr == [h[r] EXCEPT !.user_ids = ids, !.sec_user_id = sec]
       IN  Resume(r, IF sec = "" THEN OwnerFallback(hr, settings) ELSE CheckSecUser(hr))
  /\ UNCHANGED <<sx, fx, hookEnv, settings, fetching, fetched, task>>

\* ids = await self.links.run(owner["url"], "user", ...); ids[0] if ids else ""
OwnerLinksReturn(r) ==
  /\ LoopFree
  /\ h[r].pc = "owner_links"
  /\ \E ids \in {<<>>, <<"OU">>} :
       Resume(r, CheckSecUser([h[r] EXCEPT !.user_ids = ids,
                                           !.sec_user_id = IF ids # <<>> THEN ids[1] ELSE ""]))
  /\ UNCHANGED <<sx, fx, hookEnv, settings, fetching, fetched, task>>

\* info = await self.get_user_info_data(...); if not info: return ...
UserInfoReturn(r) ==
  /\ LoopFree
  /\ h[r].pc = "user_info"
  /\ \E info \in BOOLEAN :
       Resume(r, IF info THEN [h[r] EXCEPT !.pc = "account_data"]
                 ELSE FailedReturn(h[r], MsgInfoFailed))
  /\ UNCHANGED <<sx, fx, hookEnv, settings, fetching, fetched, task>>

\* account_data, earliest, latest = await self._get_account_data(...)
AccountDataReturn(r) ==
  /\ LoopFree
  /\ h[r].pc = "account_data"
  /\ \E any \in BOOLEAN :
       Resume(r, IF any THEN [h[r] EXCEPT !.pc = "batch_process"]
                 ELSE FailedReturn(h[r], MsgFavoriteFailed))
  /\ UNCHANGED <<sx, fx, hookEnv, settings, fetching, fetched, task>>

\* (faulty variant: the "if not data" return is missing)
BatchProcessReturnUnchecked(r) ==
  /\ LoopFree
  /\ h[r].pc = "batch_process"
  /\ \E k \in 0..MaxItems :
       /\ Resume(r, [h[r] EXCEPT !.data = Items(NoScope, k), !.pc = "fav_fetch"])
       /\ fetching' = [fetching EXCEPT ![r] = @ \cup {NoScope}]
  /\ UNCHANGED <<sx, fx, hookEnv, settings, fetched, task>>

\* data = await self._batch_process_detail(...); if not data: return ...
BatchProcessReturn(r) ==
  /\ LoopFree
  /\ h[r].pc = "batch_process"
  /\ \E k \in 0..MaxItems :
       IF k = 0
       THEN /\ Resume(r, FailedReturn(h[r], MsgExtractFailed))
            /\ UNCHANGED fetching
       ELSE /\ Resume(r, [h[r] EXCEPT !.data = Items(NoScope, k), !.pc = "fav_fetch"])
            /\ fetching' = [fetching EXCEPT ![r] = @ \cup {NoScope}]
  /\ UNCHANGED <<sx, fx, hookEnv, settings, fetched, task>>

\* the statements after "await self.downloader.run_batch(...)" of the favorite batch
FavBatchReturn(r) ==
  /\ LoopFree
  /\ h[r].pc = "fav_fetch"
  /\ BatchAwaited(r, NoScope)
  /\ Resume(r, [h[r] EXCEPT !.items_out = Entries(h[r].data),
                            !.data = <<>>, !.pc = "assemble"])
  /\ UNCHANGED <<sx, fx, hookEnv, settings, fetching, fetched, task>>

\* ------------------------------------------------------------ data endpoint
\* handle_live: "if data := await self.handle_live(extract): return
\* self.success_response(...)"; "return self.failed_response(extract)"
LiveReturn(r) ==
  /\ LoopFree
  /\ h[r].pc = "live_fetch"
  /\ \E found \in BOOLEAN :
       Resume(r, IF found THEN SuccessResponse(h[r]) ELSE FailedResponse(h[r]))
  /\ UNCHANGED <<sx, fx, hookEnv, settings, fetching, fetched, task>>

\* --------------------------------------------------------------- downloader
\* the downloader call for one batch runs to its end
DownloaderFinish(r) ==
  /\ LoopFree
  /\ \E scope \in fetching[r] :
       /\ fetching' = [fetching EXCEPT ![r] = @ \ {scope}]
       /\ fetched' = [fetched EXCEPT ![r] = @ \cup {scope}]
  /\ UNCHANGED <<sx, fx, hookEnv, settings, h, task, cur>>

\* ------------------------------------------------- last segment of a handler
\* data_payload = {...}
Assemble(r) ==
  /\ cur = r
  /\ h[r].pc = "assemble"
  /\ h' = [h EXCEPT ![r] = [@ EXCEPT !.data_payload = DataPayload(h[r]), !.pc = "notify"]]
  /\ UNCHANGED <<sx, fx, hookEnv, settings, fetching, fetched, task, cur>>

\* _trigger_post_download_hook(payload)
TriggerPostDownloadHook(r) ==
  /\ cur = r
  /\ h[r].pc = "notify"
  /\ LET hr == [h[r] EXCEPT !.hooks = @ + 1, !.pc = "return"]
     IN  IF GetPostDownloadHookUrls(hookEnv) = <<>>
         THEN h' = [h EXCEPT ![r] = hr] /\ UNCHANGED task
         ELSE \E loop_running \in BOOLEAN :
                IF loop_running
                THEN /\ h' = [h EXCEPT ![r] = hr]
                     /\ task' = [task EXCEPT ![r] =
                                   [NoTask EXCEPT !.pc = "created",
                                                  !.payload = HookPayload(h[r]),
                                                  !.seen = GetPostDownloadHookUrls(hookEnv)]]
                ELSE /\ h' = [h EXCEPT ![r] = OnCreateTaskError(hr)]
                     /\ UNCHANGED task
  /\ cur' = LoopAfterTrigger(r)
  /\ UNCHANGED <<sx, fx, hookEnv, settings, fetching, fetched>>

\* return DataResponse(message="...completed", data=data_payload, params=...)
Return(r) ==
  /\ cur \in {0, r}
  /\ h[r].pc = "return"
  /\ h' = [h EXCEPT ![r] = [@ EXCEPT !.response = CompletedResponse(h[r]), !.pc = "done"]]
  /\ cur' = 0
  /\ UNCHANGED <<sx, fx, hookEnv, settings, fetching, fetched, task>>


\* ------------------------------------------------------------- webhook task
\* the segment whose POST is in flight, or 0
InFlight(t) == IF Len(t.posts) > Len(t.results) THEN t.posts[Len(t.posts)].seg ELSE 0

\* how often segment i of the list has been POSTed
PostCount(t, i) == Cardinality({k \in DOMAIN t.posts : t.posts[k].seg = i})

\* (faulty variants: a failed POST ends the loop; a failed POST is retried once)
NextPostAbort(i, n, outcome, posts) ==
  IF outcome # "ok" THEN 0 ELSE IF i < n THEN i + 1 ELSE 0

NextPostRetry(i, n, outcome, posts) ==
  IF outcome # "ok" /\ Cardinality({k \in DOMAIN posts : posts[k].seg = i}) < 2 THEN i
  ELSE IF i < n THEN i + 1 ELSE 0

\* "for url in urls: try: ... except Exception: ..."; the segment POSTed after
\* segment i of n answered with outcome, or 0 when the loop is over
NextPost(i, n, outcome, posts) == IF i < n THEN i + 1 ELSE 0

\* client.post(url, json=payload, headers=headers)
Post(t, i) == [seg |-> i, url |-> t.urls[i], body |-> t.payload]

\* _send_post_download_webhook up to its first await: the list is read again,
\* the timeout is parsed, the client is built and the first POST is issued
TaskStart(r) ==
  /\ LoopFree
  /\ task[r].pc = "created"
  /\ LET urls == GetPostDownloadHookUrls(hookEnv)
     IN  IF urls = <<>>
         THEN task' = [task EXCEPT ![r] = [@ EXCEPT !.pc = "done"]]
         ELSE \E setup \in {"ok", "malformed_timeout", "client_error"} :
                IF setup = "ok"
                THEN LET t == [task[r] EXCEPT !.pc = "posting", !.urls = urls]
                     IN  task' = [task EXCEPT ![r] = [t EXCEPT !.posts = <<Post(t, 1)>>]]
                ELSE task' = [task EXCEPT ![r] = [@ EXCEPT !.pc = "crashed"]]
  /\ UNCHANGED <<sx, fx, hookEnv, settings, h, fetching, fetched, cur>>

\* the POST in flight is answered (2xx, non-2xx, or a network error); the loop
\* logs the outcome and goes on
TaskPostReturn(r) ==
  /\ LoopFree
  /\ task[r].pc = "posting"
  /\ \E outcome \in {"ok", "http_error", "network_error"} :
       LET t == task[r]
           next == NextPost(InFlight(t), Len(t.urls), outcome, t.posts)
           t1 == [t EXCEPT !.results = Append(@, outcome)]
       IN  task' = [task EXCEPT ![r] =
                      IF next = 0 THEN [t1 EXCEPT !.pc = "done"]
                      ELSE [t1 EXCEPT !.posts = Append(@, Post(t, next))]]
  /\ UNCHANGED <<sx, fx, hookEnv, settings, h, fetching, fetched, cur>>

\* ----------------------------------------------------------------- settings
\* POST /settings: await self.parameter.set_settings_data(...)
HandleSettings ==
  /\ LoopFree
  /\ \E st \in SettingsChoices \ {settings} : settings' = st
  /\ UNCHANGED <<sx, fx, hookEnv, h, fetching, fetched, task, cur>>

\* ------------------------------------------------------- paths and file names
\* A path is the sequence of its components below "/", every component a string
\* (a sequence of characters).  Symbolic links are not followed here.
Up == <<".", ".">>                                      \* the component ".."

\* Path.resolve() of an absolute path: ".." removes the component before it
\* (acc holds the components resolved so far)
RECURSIVE ResolveFrom(_, _)
ResolveFrom(path, acc) ==
  IF path = <<>> THEN acc
  ELSE IF Head(path) = Up
       THEN ResolveFrom(Tail(path),
                        IF acc = <<>> THEN acc ELSE SubSeq(acc, 1, Len(acc) - 1))
       ELSE ResolveFrom(Tail(path), Append(acc, Head(path)))

Resolve(path) == ResolveFrom(path, <<>>)

\* root is path or one of its ancestors: path.relative_to(root) does not raise
IsRelativeTo(path, root) ==
  /\ Len(root) <= Len(path)
  /\ SubSeq(path, 1, Len(root)) = root

\* Path.as_posix() of a relative path
RECURSIVE AsPosix(_)
AsPosix(rel) ==
  IF rel = <<>> THEN <<".">>
  ELSE IF Len(rel) = 1 THEN rel[1]
  ELSE rel[1] \o <<"/">> \o AsPosix(Tail(rel))

\* the value None of a url
None == <<"None">>

\* request.base_url, which ends with "/"
BaseUrl == <<"h", ":", "/">>

\* (faulty variant: relative_to is applied to the paths as given, unresolved)
PathToFileUrlUnresolved(path, root) ==
  IF IsRelativeTo(path, root)
  THEN BaseUrl \o <<"f", "i", "l", "e", "s", "/">>
               \o AsPosix(SubSeq(path, Len(root) + 1, Len(path)))
  ELSE None

\* _path_to_file_url(request, path), with self.parameter.root = root
PathToFileUrl(path, root) ==
  LET p == Resolve(path)
      top == Resolve(root)
  IN  IF IsRelativeTo(p, top)
      THEN BaseUrl \o <<"f", "i", "l", "e", "s", "/">>
                   \o AsPosix(SubSeq(p, Len(top) + 1, Len(p)))
      ELSE None

\* str(i) of a positive integer
RECURSIVE Str(_)
Str(i) ==
  LET digit == <<"0", "1", "2", "3", "4", "5", "6", "7", "8", "9">>
  IN  IF i < 10 THEN <<digit[i + 1]>> ELSE Str(i \div 10) \o <<digit[(i % 10) + 1]>>

\* Path.with_name(name)
WithName(path, name) == Append(SubSeq(path, 1, Len(path) - 1), name)

\* the values of item["type"]: image set, live photo, video, another value,
\* and an item without the key
TypeImages == "images"
TypeLive == "live"
TypeVideo == "video"
TypeOther == "other"
TypeMissing == "missing"

\* self.downloader.generate_detail_name(item): the name the name format gives
\* the item
GenerateDetailName(item) == item.name

\* self.downloader.deal_folder_path(root, name, folder_mode): the final path
\* without suffix, in the batch folder or in a folder of the item's own
DealFolderPath(root, name, folder_mode) ==
  IF folder_mode THEN root \o <<name, name>> ELSE Append(root, name)

Jpeg == <<".", "j", "p", "e", "g">>
Mp4 == <<".", "m", "p", "4">>

\* (faulty variant: a video gets one file per element of downloads)
PredictDownloadFilesPerDownload(item, root, folder_mode) ==
  LET name == GenerateDetailName(item)
      actual_root == DealFolderPath(root, name, folder_mode)
      suffix == IF item.type = TypeImages THEN Jpeg ELSE Mp4
  IN  IF item.type \in {TypeImages, TypeLive, TypeVideo}
      THEN [i \in 1..Len(item.downloads) |->
              WithName(actual_root, name \o <<"_">> \o Str(i) \o suffix)]
      ELSE <<>>

\* _predict_download_files(item, root)
PredictDownloadFiles(item, root, folder_mode) ==
  LET name == GenerateDetailName(item)
      actual_root == DealFolderPath(root, name, folder_mode)
      downloads == item.downloads
  IN  IF item.type = TypeImages
      THEN [i \in 1..Len(downloads) |->
              WithName(actual_root, name \o <<"_">> \o Str(i) \o Jpeg)]
      ELSE IF item.type = TypeLive
      THEN [i \in 1..Len(downloads) |->
              WithName(actual_root, name \o <<"_">> \o Str(i) \o Mp4)]
      ELSE IF item.type = TypeVideo
      THEN <<WithName(actual_root, name \o Mp4)>>
      ELSE <<>>

\* one element of "files": {"path": str(p.resolve()), "url": self._path_to_file_url(request, p)}
FileEntry(p, root) == [path |-> Resolve(p), url |-> PathToFileUrl(p, root)]

\* one element of items_out, with the files predicted for the item
ItemEntry(item, folder, folder_mode, root) ==
  LET files == PredictDownloadFiles(item, folder, folder_mode)
  IN  [id |-> item.id, type |-> item.type,
       files |-> [k \in 1..Len(files) |-> FileEntry(files[k], root)]]

\* ------------------------------------------------------------ specification
Init ==
  /\ hookEnv \in HookEnvChoices
  /\ settings \in SettingsChoices
  /\ h = [r \in Req |-> IdleHandler]
  /\ fetching = [r \in Req |-> {}]
  /\ fetched = [r \in Req |-> {}]
  /\ task = [r \in Req |-> NoTask]
  /\ cur = 0
  /\ fx = NoBatch
  /\ sx = NoCall

Next ==
  \/ HandleSettings
  \/ \E r \in Req :
       \/ Start(r)
       \/ RedirectReturn(r)
       \/ LinksMixReturn(r)
       \/ LinksDetailReturn(r)
       \/ MixExtractReturn(r)
       \/ MixBatchReturn(r)
       \/ DetailExtractReturn(r)
       \/ DetailBatchReturn(r)
       \/ FavRedirectReturn(r)
       \/ FavLinksReturn(r)
       \/ OwnerLinksReturn(r)
       \/ UserInfoReturn(r)
       \/ AccountDataReturn(r)
       \/ BatchProcessReturn(r)
       \/ FavBatchReturn(r)
       \/ LiveReturn(r)
       \/ DownloaderFinish(r)
       \/ Assemble(r)
       \/ TriggerPostDownloadHook(r)
       \/ Return(r)
       \/ TaskStart(r)
       \/ TaskPostReturn(r)

Spec == Init /\ [][Next]_vars

\* a step of the handler of r after its start
HandlerStep(r) ==
  \/ RedirectReturn(r) \/ LinksMixReturn(r) \/ LinksDetailReturn(r)
  \/ MixExtractReturn(r) \/ MixBatchReturn(r)
  \/ DetailExtractReturn(r) \/ DetailBatchReturn(r)
  \/ FavRedirectReturn(r) \/ FavLinksReturn(r) \/ OwnerLinksReturn(r)
  \/ UserInfoReturn(r) \/ AccountDataReturn(r) \/ BatchProcessReturn(r)
  \/ FavBatchReturn(r) \/ LiveReturn(r)
  \/ Assemble(r) \/ TriggerPostDownloadHook(r) \/ Return(r)

\* Every awaited call returns and the event loop runs every coroutine that is
\* ready: the handler, the downloader call and the webhook task each go on.
Fairness ==
  \A r \in Req :
    /\ WF_vars(HandlerStep(r))
    /\ WF_vars(DownloaderFinish(r))
    /\ WF_vars(TaskStart(r) \/ TaskPostReturn(r))

\* The server while the settings stay as they are: requests, downloader calls
\* and webhook tasks, each going on.
NextLive ==
  \E r \in Req :
    \/ Start(r)
    \/ HandlerStep(r)
    \/ DownloaderFinish(r)
    \/ TaskStart(r)
    \/ TaskPostReturn(r)

\* no endpoint or two endpoints; no owner, an owner by id, an owner by url
InitLive ==
  /\ Init
  /\ hookEnv \in {Unset, <<"a", ";", "b">>}
  /\ \E o \in {NoOwner, [NoOwner EXCEPT !.sec_uid = "O1"], [NoOwner EXCEPT !.url = "OURL"]} :
       settings = [owner_url |-> o, owner_url_tiktok |-> o]

SpecLive == InitLive /\ [][NextLive]_vars /\ Fairness

\* The dispatcher on every value of the variable: one handler has reached the
\* call of the hook (a single-video Douyin or TikTok share whose batch is done).
HookCaller(platform) ==
  LET hr == [IdleHandler EXCEPT !.kind = "share", !.platform = platform, !.text = "T",
                                !.resolved = "R", !.ids = Ids(1),
                                !.items_out = Entries(Items(NoScope, 1)),
                                !.calls = {"redirect", "links_mix", "detail_extract",
                                           "detail_fetch"}]
  IN  [hr EXCEPT !.data_payload = DataPayload(hr), !.pc = "notify"]

InitHook ==
  /\ hookEnv \in AllHookEnvs
  /\ settings = [owner_url |-> NoOwner, owner_url_tiktok |-> NoOwner]
  /\ \E platform \in {"douyin", "tiktok"} :
       h = [r \in Req |-> IF r = 1 THEN HookCaller(platform) ELSE IdleHandler]
  /\ fetching = [r \in Req |-> {}]
  /\ fetched = [r \in Req |-> IF r = 1 THEN {NoScope} ELSE {}]
  /\ task = [r \in Req |-> NoTask]
  /\ cur = 1
  /\ fx = NoBatch
  /\ sx = NoCall

NextHook ==
  \E r \in Req :
    \/ TriggerPostDownloadHook(r)
    \/ Return(r)
    \/ TaskStart(r)
    \/ TaskPostReturn(r)

SpecHook == InitHook /\ [][NextHook]_vars

\* Two requests in flight at once: a share of one collection that has reached
\* the call of the hook, and a favorite request suspended in its downloader call.
PairReq == {1, 2}

ShareAtNotify(platform) ==
  LET hr == [IdleHandler EXCEPT !.kind = "share", !.platform = platform, !.text = "T",
                                !.resolved = "R", !.mix_flag = TRUE, !.ids = Ids(1),
                                !.idx = 2, !.items_out = Entries(Items(1, 1)),
                                !.calls = {"redirect", "links_mix", "mix_extract",
                                           "mix_fetch"}]
  IN  [hr EXCEPT !.data_payload = DataPayload(hr), !.pc = "notify"]

FavoriteAtFetch(platform) ==
  [IdleHandler EXCEPT !.kind = "favorite", !.platform = platform,
                      !.req_sec_user_id = "U", !.sec_user_id = "U",
                      !.data = Items(NoScope, MaxItems), !.pc = "fav_fetch",
                      !.calls = {"user_info", "account_data", "batch_process",
                                 "fav_fetch"}]

InitPair ==
  /\ hookEnv \in HookEnvChoices
  /\ settings = [owner_url |-> NoOwner, owner_url_tiktok |-> NoOwner]
  /\ \E p1, p2 \in {"douyin", "tiktok"} :
       h = [r \in PairReq |-> IF r = 1 THEN ShareAtNotify(p1) ELSE FavoriteAtFetch(p2)]
  /\ fetching = [r \in PairReq |-> IF r = 1 THEN {} ELSE {NoScope}]
  /\ fetched = [r \in PairReq |-> IF r = 1 THEN {1} ELSE {}]
  /\ task = [r \in PairReq |-> NoTask]
  /\ cur = 1
  /\ fx = NoBatch
  /\ sx = NoCall

NextPair ==
  \E r \in PairReq :
    \/ DownloaderFinish(r)
    \/ FavBatchReturn(r)
    \/ Assemble(r)
    \/ TriggerPostDownloadHook(r)
    \/ Return(r)
    \/ TaskStart(r)
    \/ TaskPostReturn(r)

SpecPair == InitPair /\ [][NextPair]_vars

\* _sanitize_hook_params on every argument: a dict holding any of the keys
\* below, or a value that is no dict; then once more on its own result; and the
\* return statement of the handler that made the call.
ParamKeys == {"cookie", "cookie_tiktok", "headers", "authorization", "token", "text", "proxy"}

ParamValues ==
  {Dict([k \in keys |-> "v"]) : keys \in SUBSET ParamKeys}
    \cup {NotDict("None"), NotDict("list"), NotDict("str")}

\* "params": self._sanitize_hook_params(extract.model_dump())
SanitizeCall ==
  /\ sx.pc = "ready"
  /\ LET call == SanitizeHookParamsCall(sx.params)
     IN  sx' = [sx EXCEPT !.after = call.params, !.cleaned = call.cleaned, !.pc = "called"]
  /\ UNCHANGED <<hookEnv, settings, h, fetching, fetched, task, cur, fx>>

\* the function applied to its own result
SanitizeAgain ==
  /\ sx.pc = "called"
  /\ sx' = [sx EXCEPT !.again = SanitizeHookParamsCall(sx.cleaned).cleaned, !.pc = "again"]
  /\ UNCHANGED <<hookEnv, settings, h, fetching, fetched, task, cur, fx>>

\* return DataResponse(..., params=extract.model_dump()): the request is dumped
\* anew for the response
ResponseParams ==
  /\ sx.pc = "called"
  /\ sx.params.kind = "dict"
  /\ sx' = [sx EXCEPT !.response = Dict(sx.params.items), !.pc = "returned"]
  /\ UNCHANGED <<hookEnv, settings, h, fetching, fetched, task, cur, fx>>

InitSanitize ==
  /\ hookEnv = Unset
  /\ settings = [owner_url |-> NoOwner, owner_url_tiktok |-> NoOwner]
  /\ h = [r \in Req |-> IdleHandler]
  /\ fetching = [r \in Req |-> {}]
  /\ fetched = [r \in Req |-> {}]
  /\ task = [r \in Req |-> NoTask]
  /\ cur = 0
  /\ fx = NoBatch
  /\ \E v \in ParamValues : sx = [NoCall EXCEPT !.pc = "ready", !.params = v]

NextSanitize == SanitizeCall \/ SanitizeAgain \/ ResponseParams

SpecSanitize == InitSanitize /\ [][NextSanitize]_vars

\* The dispatcher in a process whose environment is changed while it runs:
\* os.getenv reads the variable as it is at the moment of the call.
SetHookEnv ==
  /\ LoopFree
  /\ \E env \in HookEnvChoices \ {hookEnv} : hookEnv' = env
  /\ UNCHANGED <<settings, h, fetching, fetched, task, cur, fx, sx>>

InitEnv == InitHook /\ hookEnv \in HookEnvChoices

NextEnv == NextHook \/ SetHookEnv

SpecEnv == InitEnv /\ [][NextEnv]_vars
\* ----------------------------------------------------- one batch and its files
\* The file part of a handler, on every item type, download count, name and
\* folder: the batch has been extracted (data), the downloader call runs
\* (disk), and the handler builds the entries of items_out.
BatchIds == {1, 2}                                     \* the items of the batch

Names == { <<"x">>, <<"x", "_", "1">> }

Types == {TypeImages, TypeLive, TypeVideo, TypeOther, TypeMissing}

DirR == <<"r">>
DirM == <<"m">>
DirO == <<"o">>

\* self.parameter.root as configured
RootChoices == { <<DirR>>, <<DirO, Up, DirR>> }

\* the folder downloader.storage_folder(...) returns for the batch
FolderChoices == { <<DirR, DirM>>, <<DirO, Up, DirR, DirM>>, <<DirR, Up, DirO>> }

BatchChoices ==
  [BatchIds -> [type : Types, downloads : {[k \in 1..n |-> "u"] : n \in 0..MaxDownloads},
                name : Names]]

\* the paths the downloader call is to write for the batch
Planned(b) ==
  UNION { { Resolve(PredictDownloadFiles(b.data[i], b.folder, b.folder_mode)[k]) :
              k \in 1..Len(PredictDownloadFiles(b.data[i], b.folder, b.folder_mode)) } :
          i \in DOMAIN b.data }

\* await self.downloader.run_batch(data, ...) / run_general(data, ...): every
\* planned file is written, except one whose download failed for good
RunBatch ==
  /\ fx.pc = "extracted"
  /\ \E lost \in SUBSET Planned(fx) :
       /\ Cardinality(lost) <= 1
       /\ fx' = [fx EXCEPT !.disk = Planned(fx) \ lost, !.pc = "fetched"]
  /\ UNCHANGED <<hookEnv, settings, h, fetching, fetched, task, cur, sx>>

\* "for item in data: files = self._predict_download_files(item, root);
\* items_out.append({...})"
BuildItemsOut ==
  /\ fx.pc = "fetched"
  /\ fx' = [fx EXCEPT !.items_out =
                        [i \in DOMAIN fx.data |->
                           ItemEntry(fx.data[i], fx.folder, fx.folder_mode, fx.root)],
                      !.pc = "answered"]
  /\ UNCHANGED <<hookEnv, settings, h, fetching, fetched, task, cur, sx>>

InitFiles ==
  /\ hookEnv = Unset
  /\ settings = [owner_url |-> NoOwner, owner_url_tiktok |-> NoOwner]
  /\ h = [r \in Req |-> IdleHandler]
  /\ fetching = [r \in Req |-> {}]
  /\ fetched = [r \in Req |-> {}]
  /\ task = [r \in Req |-> NoTask]
  /\ cur = 0
  /\ sx = NoCall
  /\ \E d \in BatchChoices, folder \in FolderChoices, folder_mode \in BOOLEAN,
        root \in RootChoices :
       fx = [NoBatch EXCEPT !.pc = "extracted",
                            !.data = [i \in BatchIds |->
                                        [id |-> i, type |-> d[i].type,
                                         downloads |-> d[i].downloads, name |-> d[i].name]],
                            !.folder = folder, !.folder_mode = folder_mode, !.root = root]

NextFiles == RunBatch \/ BuildItemsOut

SpecFiles == InitFiles /\ [][NextFiles]_vars



\* ==========================================================================
\* Properties
\* ==========================================================================
Fav(r) == h[r].kind = "favorite"
Share(r) == h[r].kind = "share"

\* nothing beyond resolution has happened for r: no account-info fetch, no
\* listing fetch, no extraction, no download, no notification
NothingAttempted(r) ==
  /\ h[r].calls \subseteq {"redirect", "links_mix", "links_detail",
                           "fav_redirect", "fav_links", "owner_links", "settings_read"}
  /\ fetching[r] = {} /\ fetched[r] = {}
  /\ h[r].hooks = 0 /\ task[r] = NoTask

\* r ended with the failure envelope carrying msg and an empty item list
FailedWith(r, msg) ==
  /\ h[r].pc = "failed"
  /\ h[r].response = [message |-> msg,
                      data |-> [resolved_url |-> h[r].resolved, items |-> <<>>],
                      params |-> ModelDump(h[r])]

\* the favorite handler of r is past its resolution of the account with an
\* empty sec_user_id and an empty text, and the owner setting it read held no
\* sec_uid, no sec_user_id and no url that resolved
NoOwnerAsClaimed(r) ==
  /\ Fav(r) /\ h[r].req_sec_user_id = "" /\ h[r].text = ""
  /\ h[r].pc \notin {"idle", "owner_links"}
  /\ h[r].owner.sec_uid = "" /\ h[r].owner.sec_user_id = ""
  /\ (h[r].owner.url = "" \/ h[r].user_ids = <<>>)

\* C1 as stated: with no sec_uid / sec_user_id and no resolvable url in the
\* owner setting, a favorite request without sec_user_id and text ends with the
\* parameter error, resolved_url "" and no items, and nothing was attempted.
\* (Refuted: the TikTok handler also accepts the key secUid.)
C1_AsStated ==
  \A r \in Req :
    NoOwnerAsClaimed(r) =>
      /\ FailedWith(r, ParamErrorMessage(h[r].platform))
      /\ h[r].resolved = ""
      /\ NothingAttempted(r)

\* C1 amended: the same, when for TikTok the owner setting holds no secUid either.
C1_ParamError ==
  \A r \in Req :
    (NoOwnerAsClaimed(r) /\ (h[r].platform = "tiktok" => h[r].owner.secUid = "")) =>
      /\ FailedWith(r, ParamErrorMessage(h[r].platform))
      /\ h[r].resolved = ""
      /\ NothingAttempted(r)

C1_Witness ==
  \E r \in Req :
    /\ NoOwnerAsClaimed(r) /\ h[r].platform = "tiktok" /\ h[r].owner.secUid = ""
    /\ h[r].owner.url # "" /\ "owner_links" \in h[r].calls
    /\ h[r].pc = "failed"

\* C2: a share request whose collection resolution and single-item resolution
\* both yield no identifier ends Failed with the resolution-failure message and
\* items = [], and no extraction, fetch or notification was attempted.
C2_ResolutionFailure ==
  \A r \in Req :
    (Share(r) /\ "links_detail" \in h[r].calls /\ h[r].pc # "links_detail"
       /\ h[r].ids = <<>>) =>
      /\ FailedWith(r, MsgResolveFailed)
      /\ NothingAttempted(r)

C2_Witness ==
  \E r \in Req :
    /\ Share(r) /\ "links_detail" \in h[r].calls /\ h[r].ids = <<>>
    /\ h[r].pc = "failed" /\ h[r].response.message = MsgResolveFailed

\* C3 as stated: a share request whose resolution succeeded and whose scopes all
\* yielded zero items does not trigger the completion notification and does not
\* return the 'download completed' response.  (Refuted by the code.)
C3_NoDataFails ==
  \A r \in Req :
    (Share(r) /\ h[r].ids # <<>> /\ h[r].items_out = <<>>) =>
      /\ h[r].hooks = 0
      /\ h[r].response.message # MsgCompleted


\* the scopes whose entries are in the response items of r
ScopesOut(r) == {h[r].items_out[k].id[1] : k \in DOMAIN h[r].items_out}

\* C4: the file entries of a batch are built only after the downloader call for
\* that batch has finished, and no downloader call of the request is running
\* while the payload is composed or once the response is returned.
C4_FetchFinishedFirst ==
  \A r \in Req :
    /\ ScopesOut(r) \subseteq fetched[r]
    /\ (h[r].pc \in LastSegment \/ h[r].response # NoResponse) => fetching[r] = {}

C4_Witness ==
  \E r \in Req :
    /\ h[r].pc = "done" /\ h[r].response.message = MsgCompleted
    /\ Cardinality(ScopesOut(r)) >= 2
    /\ Len(h[r].response.data.items) >= 3

\* the phase of the request state machine a handler position belongs to,
\* numbered in the order Resolving, Extracting, Fetching, Assembling,
\* Notifying, Done / Failed
PhaseRank(pc) ==
  CASE pc = "idle" -> 0
    [] pc \in {"redirect", "links_mix", "links_detail",
               "fav_redirect", "fav_links", "owner_links"} -> 1
    [] pc \in {"mix_extract", "detail_extract", "user_info", "account_data",
               "batch_process"} -> 2
    [] pc \in {"mix_fetch", "detail_fetch", "fav_fetch"} -> 3
    [] pc = "assemble" -> 4
    [] pc \in {"notify", "return"} -> 5
    [] OTHER -> 6

\* the hook is called at most once, by every request that is Done and by none
\* that Failed, and only with the payload composed from the finished item list
NotifiedOnce(r) ==
  /\ h[r].hooks <= 1
  /\ h[r].pc = "done" => h[r].hooks = 1
  /\ h[r].pc = "failed" => h[r].hooks = 0
  /\ h[r].hooks = 1 =>
       /\ h[r].pc \in {"return", "done"}
       /\ h[r].data_payload = DataPayload(h[r])
  /\ IF h[r].hooks = 0 THEN task[r] = NoTask
     ELSE task[r] # NoTask => task[r].payload = HookPayload(h[r])

\* the step back from Fetching to Extracting made for the next collection id
CollectionCycle(r) ==
  /\ Share(r) /\ h[r].mix_flag
  /\ h[r].pc = "mix_fetch" /\ h'[r].pc = "mix_extract"
  /\ h'[r].idx = h[r].idx + 1

\* C5 as stated: every request moves through its phases only in the order
\* Resolving, Extracting, Fetching, Assembling, Notifying, Done (or drops to
\* Failed), and the notification is handed off exactly once per Done request,
\* after the payload is assembled, never for a Failed one.
\* (Refuted: a share of several collections returns from Fetching to Extracting.)
C5_AsStated ==
  [][\A r \in Req :
       /\ PhaseRank(h'[r].pc) >= PhaseRank(h[r].pc)
       /\ NotifiedOnce(r)']_vars

\* C5 amended: the phases never go backwards except that a share of several
\* collections returns from Fetching to Extracting for each further collection
\* id; the notification part is as stated.
C5_PhaseOrder ==
  [][\A r \in Req :
       /\ PhaseRank(h'[r].pc) >= PhaseRank(h[r].pc) \/ CollectionCycle(r)
       /\ NotifiedOnce(r)']_vars

C5_Witness ==
  \E r \in Req :
    /\ h[r].pc = "done" /\ h[r].mix_flag /\ Cardinality(ScopesOut(r)) >= 2
    /\ h[r].hooks = 1 /\ task[r].pc = "done"

\* the response of r as the handler builds it from its own locals
ExpectedResponse(r) ==
  [message |-> MsgCompleted, data |-> DataPayload(h[r]), params |-> ModelDump(h[r])]

\* C6: whatever fails in the notification step (no running loop, malformed
\* timeout, client construction error, network error, non-2xx), a handler that
\* called the hook can return and returns the response it would return otherwise.
C6_ResponseUnaffected ==
  \A r \in Req :
    h[r].hooks >= 1 =>
      \/ h[r].pc = "return" /\ ENABLED Return(r)
      \/ h[r].pc = "done" /\ h[r].response = ExpectedResponse(r)

C6_Witness ==
  \E r \in Req :
    /\ h[r].pc = "done" /\ h[r].response = ExpectedResponse(r)
    /\ task[r].pc = "crashed"

\* C7: the webhook task does not run before the handler has returned its
\* response: while the handler has not returned the task is not started, and no
\* POST is issued before the response exists.
C7_ReturnBeforePost ==
  \A r \in Req :
    /\ task[r].pc \notin {"none", "created"} =>
         h[r].pc = "done" /\ h[r].response.message = MsgCompleted
    /\ (task[r].pc = "created" /\ h[r].pc = "return") => ENABLED Return(r)

C7_Witness ==
  \E r \in Req :
    /\ task[r].pc = "posting" /\ Len(task[r].posts) = 1 /\ task[r].results = <<>>
    /\ h[r].pc = "done"


\* the variable is unset, empty, or made only of whitespace and semicolons
NoEndpoint(env) == env = Unset \/ \A i \in DOMAIN env : env[i] \in {" ", ";"}

\* the segments of the list that name an endpoint, counted on the raw value: the
\* maximal runs between semicolons that hold a character other than whitespace
Endpoints(env) ==
  IF env = Unset THEN 0
  ELSE Cardinality({i \in DOMAIN env :
         /\ env[i] \notin {" ", ";"}
         /\ \A j \in 1..(i - 1) :
              env[j] \notin {" ", ";"} => \E m \in (j + 1)..(i - 1) : env[m] = ";"})

\* C8: when the task has gone through the list, every configured endpoint has
\* received a POST of the event payload, whichever POSTs failed: also the
\* endpoints that follow a failed one.
C8_AllEndpointsPosted ==
  \A r \in Req :
    task[r].pc = "done" =>
      /\ Len(task[r].urls) = Endpoints(hookEnv)
      /\ \A i \in 1..Len(task[r].urls) :
           \E k \in DOMAIN task[r].posts :
             task[r].posts[k] = [seg |-> i, url |-> task[r].urls[i],
                                 body |-> HookPayload(h[r])]

C8_Witness ==
  \E r \in Req :
    /\ task[r].pc = "done" /\ Len(task[r].urls) = 2
    /\ task[r].results[1] = "http_error"
    /\ task[r].posts[2].seg = 2 /\ task[r].results[2] = "ok"

\* C9: every endpoint of the list is a non-empty, trimmed segment without
\* separator, and is sent at most one POST for one event, failed or not.
C9_AtMostOnePost ==
  \A r \in Req :
    /\ \A i \in DOMAIN task[r].urls :
         /\ task[r].urls[i] # <<>>
         /\ Strip(task[r].urls[i]) = task[r].urls[i]
         /\ \A j \in DOMAIN task[r].urls[i] : task[r].urls[i][j] # ";"
         /\ PostCount(task[r], i) <= 1
    /\ \A k \in DOMAIN task[r].posts : task[r].posts[k].seg \in DOMAIN task[r].urls
    /\ Len(task[r].results) <= Len(task[r].posts)

C9_Witness ==
  \E r \in Req :
    /\ task[r].pc = "done" /\ Len(task[r].urls) = 2
    /\ task[r].results = <<"network_error", "http_error">>
    /\ Len(task[r].posts) = 2

\* C10: with no endpoint configured the hook creates no task, so that no client
\* is opened and no request is sent.
C10_NoEndpointNoTask ==
  \A r \in Req : NoEndpoint(hookEnv) => task[r] = NoTask

C10_Witness ==
  \E r \in Req :
    /\ h[r].hooks = 1 /\ h[r].pc = "done"
    /\ NoEndpoint(hookEnv) /\ hookEnv # Unset /\ Len(hookEnv) = MaxRawLen
    /\ \E i \in DOMAIN hookEnv : hookEnv[i] = ";"
    /\ task[r] = NoTask

\* the keys the notification must not carry
CredentialKeys == {"cookie", "cookie_tiktok", "headers", "authorization", "token"}

\* C11: the params of every event handed to the dispatcher hold none of the keys
\* cookie, cookie_tiktok, headers, authorization, token, and hold every other
\* field of the request with the value the request gave it.
C11_ParamsSanitized ==
  \A r \in Req :
    task[r].pc # "none" =>
      LET params == task[r].payload.params
          request == ModelDump(h[r])
      IN  /\ DOMAIN params \cap CredentialKeys = {}
          /\ DOMAIN params = DOMAIN request \ CredentialKeys
          /\ \A k \in DOMAIN params : params[k] = request[k]

C11_Witness ==
  \E r \in Req :
    /\ Fav(r) /\ task[r].pc = "posting"
    /\ "cookie" \in DOMAIN ModelDump(h[r])
    /\ "cookie" \notin DOMAIN task[r].posts[1].body.params
    /\ task[r].posts[1].body.params.sec_user_id = "U"

\* path lies below the directory top
Under(path, top) ==
  /\ Len(path) > Len(top)
  /\ \A j \in 1..Len(top) : path[j] = top[j]

\* the files the handler predicted for item i of the batch
PredictedOf(i) == PredictDownloadFiles(fx.data[i], fx.folder, fx.folder_mode)

\* C12: in the entries the handler builds, a file's url is non-null only if its
\* resolved path lies below the resolved root, and is then base_url + "files/" +
\* the path relative to the root; a file outside the root has url null, and its
\* entry is still there (one entry per predicted file, the response is built).
C12_UrlOnlyUnderRoot ==
  fx.pc = "answered" =>
    \A i \in DOMAIN fx.items_out :
      /\ Len(fx.items_out[i].files) = Len(PredictedOf(i))
      /\ \A k \in DOMAIN fx.items_out[i].files :
           LET f == fx.items_out[i].files[k]
               top == Resolve(fx.root)
           IN  /\ \A j \in DOMAIN f.path : f.path[j] # Up
               /\ f.path[Len(f.path)] = PredictedOf(i)[k][Len(PredictedOf(i)[k])]
               /\ IF Under(f.path, top)
                  THEN f.url = BaseUrl \o <<"f", "i", "l", "e", "s", "/">>
                                       \o AsPosix(SubSeq(f.path, Len(top) + 1, Len(f.path)))
                  ELSE f.url = None

C12_Witness ==
  /\ fx.pc = "answered"
  /\ fx.root = <<DirO, Up, DirR>> /\ fx.folder = <<DirR, Up, DirO>>
  /\ Len(fx.items_out[1].files) = 2
  /\ \A k \in 1..2 : fx.items_out[1].files[k].url = None
  /\ fx.items_out[2].files # <<>>

\* the directory of a path, and its last component
Parent(path) == SubSeq(path, 1, Len(path) - 1)
Last(path) == path[Len(path)]

\* the file names the claim gives an item
ClaimedNames(item) ==
  LET n == Len(item.downloads)
  IN  IF item.type = TypeImages
      THEN [k \in 1..n |-> item.name \o <<"_">> \o Str(k) \o <<".", "j", "p", "e", "g">>]
      ELSE IF item.type = TypeLive
      THEN [k \in 1..n |-> item.name \o <<"_">> \o Str(k) \o <<".", "m", "p", "4">>]
      ELSE IF item.type = TypeVideo
      THEN << item.name \o <<".", "m", "p", "4">> >>
      ELSE <<>>

\* C13: the files listed for an item are determined by its type: an image set
\* with N downloads has name_1.jpeg .. name_N.jpeg in that order, a live photo
\* name_1.mp4 .. name_N.mp4, a video exactly name.mp4 whatever downloads holds,
\* any other or missing type no file; all of them lie in the one directory the
\* folder planner planned for the item.
C13_FilesByType ==
  fx.pc = "answered" =>
    \A i \in DOMAIN fx.items_out :
      LET files == fx.items_out[i].files
          item == fx.data[i]
          planned == DealFolderPath(fx.folder, item.name, fx.folder_mode)
      IN  /\ Len(files) = Len(ClaimedNames(item))
          /\ \A k \in DOMAIN files :
               /\ Last(files[k].path) = ClaimedNames(item)[k]
               /\ Parent(files[k].path) = Resolve(Parent(planned))

C13_Witness ==
  /\ fx.pc = "answered"
  /\ fx.data[1].type = TypeVideo /\ Len(fx.data[1].downloads) = 2
  /\ Len(fx.items_out[1].files) = 1
  /\ fx.data[2].type = TypeImages /\ Len(fx.data[2].downloads) = 2
  /\ Len(fx.items_out[2].files) = 2
  /\ fx.folder_mode

\* the entries of items_out that came from collection id, in their order
EntriesOf(r, id) ==
  LET n == Cardinality({k \in DOMAIN h[r].items_out : h[r].items_out[k].id[1] = id})
  IN  Entries(Items(id, n))

\* the entries of the first j collections of the list, in id order
RECURSIVE UpTo(_, _)
UpTo(r, j) == IF j = 0 THEN <<>> ELSE UpTo(r, j - 1) \o EntriesOf(r, h[r].ids[j])

\* C14: when a share text resolves to several collection ids, every id gets its
\* own extraction and (if it has data) its own fetch, in list order; an id
\* without data is skipped and the loop goes on; the items of the response are
\* the entries of every collection that yielded data, in id order and then in
\* item order, also of the collections before and after one without data.
C14_CollectionsInOrder ==
  \A r \in Req :
    (Share(r) /\ h[r].mix_flag /\ h[r].idx > 0) =>
      /\ h[r].pc \in {"mix_extract", "mix_fetch"} =>
           /\ h[r].idx \in 1..Len(h[r].ids)
           /\ h[r].items_out = UpTo(r, h[r].idx - 1)
           /\ fetching[r] \cup fetched[r] \subseteq {h[r].ids[j] : j \in 1..h[r].idx}
      /\ h[r].pc \in LastSegment \cup {"done"} =>
           /\ h[r].idx = Len(h[r].ids) + 1
           /\ h[r].items_out = UpTo(r, Len(h[r].ids))
           /\ ScopesOut(r) = fetched[r]
           /\ fetching[r] = {}
      /\ h[r].pc = "done" => h[r].response.data.items = h[r].items_out

C14_Witness ==
  \E r \in Req :
    /\ Share(r) /\ h[r].mix_flag /\ h[r].pc = "done" /\ Len(h[r].ids) = 3
    /\ fetched[r] = {1, 3}
    /\ h[r].response.data.items = Entries(Items(1, 2)) \o Entries(Items(3, 1))

\* C15 as stated: once the fetch has finished, every non-null file url of the
\* entries denotes a file that exists under the root, and a file whose download
\* failed for good is not in the item's file list.  (Refuted: the list is
\* predicted from type and downloads, not read from the fetch outcome.)
C15_ListedFilesExist ==
  fx.pc = "answered" =>
    \A i \in DOMAIN fx.items_out :
      \A k \in DOMAIN fx.items_out[i].files :
        LET f == fx.items_out[i].files[k]
        IN  /\ f.url # None => (f.path \in fx.disk /\ Under(f.path, Resolve(fx.root)))
            /\ f.path \notin Planned(fx) \ fx.disk

C17_EndpointsAsTriggered ==
  \A r \in Req :
    task[r].pc = "done" =>
      /\ task[r].urls = task[r].seen
      /\ \A i \in DOMAIN task[r].seen :
           \E k \in DOMAIN task[r].posts : task[r].posts[k].url = task[r].seen[i]

\* C18 as stated: a favorite request works on the settings as they were when it
\* arrived: a settings update that completes while the request is suspended on
\* a network call changes neither the account it downloads nor anything else of
\* its outcome, so the owner it uses is the owner configured at its arrival.
\* (Refuted: the owner setting is read after the awaits of the text resolution.)
C18_OwnerAsAtArrival ==
  \A r \in Req :
    (Fav(r) /\ "settings_read" \in h[r].calls) =>
      /\ h[r].owner = h[r].start_owner
      /\ h[r].user_ids = <<>> =>
           h[r].sec_user_id = OwnerSecUser(h[r].platform, h[r].start_owner)

\* the resolved paths listed for item i of the batch
PathsOf(i) == {fx.items_out[i].files[k].path : k \in DOMAIN fx.items_out[i].files}

\* C19 as stated: within one batch (one storage folder, one folder mode) two
\* items with distinct ids and distinct names never get the same final path:
\* their file lists are disjoint, whatever their types and download counts.
\* (Refuted: name_1.mp4 of a live photo called name is name_1.mp4 of a video
\* called name_1.)
C19_DistinctItemsDisjoint ==
  fx.pc = "answered" =>
    \A i, j \in DOMAIN fx.items_out :
      (fx.data[i].id # fx.data[j].id /\ fx.data[i].name # fx.data[j].name) =>
        PathsOf(i) \cap PathsOf(j) = {}

\* C20: a favorite request with a non-empty sec_user_id uses it unchanged as the
\* account: its text is ignored, no share link is resolved, the settings are not
\* read, and resolved_url is "" in the response and in the notification.
C20_SecUserIdAsGiven ==
  \A r \in Req :
    (Fav(r) /\ h[r].req_sec_user_id # "") =>
      /\ h[r].sec_user_id = h[r].req_sec_user_id
      /\ h[r].calls \cap {"fav_redirect", "fav_links", "owner_links", "settings_read"} = {}
      /\ h[r].user_ids = <<>> /\ h[r].owner = NoOwner
      /\ h[r].resolved = ""
      /\ h[r].pc \in {"failed", "done"} => h[r].response.data.resolved_url = ""
      /\ task[r] # NoTask => task[r].payload.resolved_url = ""

C20_Witness ==
  \E r \in Req :
    /\ Fav(r) /\ h[r].req_sec_user_id = "U" /\ h[r].text = "T"
    /\ OwnerOf(h[r].platform, settings) # NoOwner
    /\ h[r].pc = "done" /\ "user_info" \in h[r].calls
    /\ h[r].response.data.resolved_url = ""
    /\ task[r].pc = "done"

\* C21 as stated: in download-favorite the configured default owner is used
\* only when the request passes neither sec_user_id nor text: a request with a
\* text never resolves the owner's url and never downloads the favorites of the
\* configured owner.  (Refuted: a text that resolves to no account falls
\* through to the owner setting.)
C21_OwnerOnlyWithoutInput ==
  \A r \in Req :
    (Fav(r) /\ h[r].text # "") =>
      /\ "owner_links" \notin h[r].calls
      /\ fetching[r] \cup fetched[r] # {} =>
           h[r].sec_user_id \in {h[r].req_sec_user_id, "TU"}

\* r is a share request past its resolution and not failed there
ShareResolved(r) ==
  /\ Share(r)
  /\ h[r].pc \notin {"idle", "redirect", "links_mix", "links_detail", "failed"}

MixBranch(r) == h[r].calls \cap {"mix_extract", "mix_fetch"} # {}
DetailBranch(r) == h[r].calls \cap {"detail_extract", "detail_fetch"} # {}

\* C22: a share request tries the collection resolution first and the
\* single-item resolution only when the former gave no ids; exactly one of the
\* two branches (collection loop, single-item batch) runs, the collection loop
\* iff the resolver's flag is true with ids; after the fallback the flag is false.
C22_ResolutionOrder ==
  \A r \in Req :
    Share(r) =>
      /\ "links_detail" \in h[r].calls => "links_mix" \in h[r].calls
      /\ h[r].pc = "links_detail" => h[r].ids = <<>>
      /\ ("links_detail" \in h[r].calls /\ h[r].pc # "links_detail") => ~h[r].mix_flag
      /\ ~(MixBranch(r) /\ DetailBranch(r))
      /\ ShareResolved(r) =>
           /\ h[r].ids # <<>>
           /\ MixBranch(r) <=> h[r].mix_flag
           /\ DetailBranch(r) <=> ~h[r].mix_flag
      /\ ~ShareResolved(r) => ~MixBranch(r) /\ ~DetailBranch(r)

C22_Witness ==
  \E r \in Req :
    /\ Share(r) /\ h[r].pc = "done"
    /\ "links_detail" \in h[r].calls /\ Len(h[r].ids) = 2
    /\ ~h[r].mix_flag /\ DetailBranch(r) /\ ~MixBranch(r)
    /\ Len(h[r].response.data.items) = 2

\* the message of the failure return that follows the last stage r has called
StageMessage(r) ==
  IF "batch_process" \in h[r].calls THEN MsgExtractFailed
  ELSE IF "account_data" \in h[r].calls THEN MsgFavoriteFailed
  ELSE MsgInfoFailed

\* C23: in download-favorite each of the three later failures (no account info,
\* empty favorite listing, extraction without items) ends the request at its
\* stage with its own message and data {resolved_url, items: []}; the downloader
\* is not called, no later stage runs and no notification is triggered; a
\* request that does reach the downloader has items.
C23_LaterFailures ==
  \A r \in Req :
    Fav(r) =>
      /\ (h[r].pc = "failed" /\ "user_info" \in h[r].calls) =>
           /\ FailedWith(r, StageMessage(r))
           /\ "fav_fetch" \notin h[r].calls
           /\ "batch_process" \in h[r].calls => "account_data" \in h[r].calls
           /\ fetching[r] = {} /\ fetched[r] = {}
           /\ h[r].hooks = 0 /\ task[r] = NoTask
      /\ h[r].pc = "fav_fetch" => h[r].data # <<>>
      /\ ("fav_fetch" \in h[r].calls /\ h[r].pc # "fav_fetch") =>
           h[r].items_out # <<>> /\ h[r].pc # "failed"

C23_Witness ==
  \E r \in Req :
    /\ Fav(r) /\ h[r].pc = "failed" /\ h[r].text = "T" /\ h[r].resolved = "R"
    /\ {"user_info", "account_data", "batch_process"} \subseteq h[r].calls
    /\ h[r].response.message = MsgExtractFailed
    /\ h[r].response.data = [resolved_url |-> "R", items |-> <<>>]

\* r has its response
Terminal(r) == h[r].pc \in {"done", "failed", "answered"}

\* the task of r went once over its list: one POST per endpoint, each answered
OnePass(r) ==
  /\ task[r].pc = "done"
  /\ Len(task[r].urls) > 0
  /\ Len(task[r].posts) = Len(task[r].urls)
  /\ Len(task[r].results) = Len(task[r].posts)
  /\ \A i \in DOMAIN task[r].urls : PostCount(task[r], i) = 1

\* the response of a request that has one does not change any more, and a
\* webhook task that has ended stays ended
OneOutcome ==
  [][\A r \in Req :
       /\ Terminal(r) => h'[r] = h[r]
       /\ task[r].pc \in {"done", "crashed"} => task'[r] = task[r]]_vars

\* C24 as stated: if every collaborator call returns, every request that arrived
\* eventually has its response, exactly one and for good, and every created
\* webhook task has eventually ended after one pass over the endpoint list.  (Refuted: a task whose timeout
\* setting does not parse, or whose client cannot be built, ends without a POST.)
C24_EndsAfterOnePass ==
  /\ OneOutcome
  /\ <>[](\A r \in Req :
           /\ h[r].pc # "idle" => Terminal(r)
           /\ task[r].pc # "none" => OnePass(r))

\* C24 amended: the same, where a created task ends either after one pass over
\* the list, whatever POSTs failed, or, when its set-up raised, without any POST.
C24_Terminates ==
  /\ OneOutcome
  /\ <>[](\A r \in Req :
           /\ h[r].pc # "idle" => Terminal(r)
           /\ task[r].pc # "none" =>
                (OnePass(r) \/ (task[r].pc = "crashed" /\ task[r].posts = <<>>)))

C24_Witness ==
  \E r \in Req :
    /\ Share(r) /\ h[r].mix_flag /\ Len(h[r].ids) = MaxIds /\ h[r].pc = "done"
    /\ Len(h[r].items_out) = MaxIds * MaxItems
    /\ OnePass(r) /\ task[r].results = <<"network_error", "http_error">>

\* the fields of the response data that the event repeats
Shared(hr) ==
  IF hr.kind = "favorite"
  THEN {"resolved_url", "root", "items", "earliest", "latest"}
  ELSE {"resolved_url", "root", "items"}

\* C25: the event handed off for a request carries exactly the resolved_url,
\* root and items (for favorite also earliest and latest) of the response
\* returned for that request, with event "download.completed", the platform of
\* the endpoint and its kind as source; with two requests in flight an event
\* never carries an item of the other request.
C25_EventMatchesResponse ==
  \A r \in DOMAIN task :
    task[r].pc # "none" =>
      LET event == task[r].payload
      IN  /\ DOMAIN event = Shared(h[r]) \cup {"event", "platform", "source", "params"}
          /\ event.event = "download.completed"
          /\ event.platform = h[r].platform /\ event.platform \in {"douyin", "tiktok"}
          /\ event.source = h[r].kind /\ event.source \in {"share", "favorite"}
          /\ \A f \in Shared(h[r]) : event[f] = h[r].data_payload[f]
          /\ h[r].pc = "done" =>
               /\ h[r].response.message = MsgCompleted
               /\ \A f \in Shared(h[r]) : event[f] = h[r].response.data[f]
          /\ \A k \in DOMAIN task[r].posts : task[r].posts[k].body = event
          /\ \A q \in DOMAIN task \ {r} :
               \A k \in DOMAIN event.items, m \in DOMAIN h[q].items_out :
                 event.items[k] # h[q].items_out[m]

C25_Witness ==
  /\ DOMAIN task = PairReq
  /\ task[1].pc = "posting" /\ task[2].pc = "posting"
  /\ h[1].pc = "done" /\ h[2].pc = "done"
  /\ h[1].platform = "douyin" /\ h[2].platform = "tiktok"
  /\ task[2].posts[1].body.items = h[2].response.data.items
  /\ task[2].posts[1].body.earliest = "E"

\* C26: _sanitize_hook_params leaves its argument as it was (it pops from a
\* copy) and returns its own result unchanged when applied to it; the params of
\* the response of the same request are all request fields, credentials
\* included; an argument that is no dict yields the empty dict.
C26_SanitizeFrame ==
  /\ sx.pc \in {"called", "again", "returned"} =>
       /\ sx.after = sx.params
       /\ sx.cleaned.kind = "dict"
       /\ sx.params.kind # "dict" => DOMAIN sx.cleaned.items = {}
       /\ sx.params.kind = "dict" =>
            /\ DOMAIN sx.cleaned.items = DOMAIN sx.params.items \ CredentialKeys
            /\ \A k \in DOMAIN sx.cleaned.items : sx.cleaned.items[k] = sx.params.items[k]
  /\ sx.pc = "again" => sx.again = sx.cleaned
  /\ sx.pc = "returned" =>
       /\ sx.response = sx.params
       /\ DOMAIN sx.response.items = DOMAIN sx.after.items

C26_Witness ==
  /\ sx.pc = "again"
  /\ sx.params.kind = "dict"
  /\ {"cookie", "token", "text"} \subseteq DOMAIN sx.params.items
  /\ DOMAIN sx.again.items = DOMAIN sx.params.items \ CredentialKeys
  /\ sx.after = sx.params

=============================================================================
